---- MODULE Spec2Model ----
(***************************************************************************)
(* Month-view calendar of the home-hub dashboard                          *)
(* (src/static/js/calendar.js): grid construction, classification of      *)
(* events, week segments, global lane assignment, per-week compaction and  *)
(* the per-cell overflow pass of the ResizeObserver callback.             *)
(*                                                                         *)
(* A JavaScript Date is modelled by its local calendar day, counted in    *)
(* days since 1970-01-01, and (for event instants) the second of that day. *)
(***************************************************************************)
EXTENDS Integers, Sequences, FiniteSets, TLC

VARIABLES
    today,                \* the local calendar day of the clock (new Date())
    inbox,                \* calendar payloads (event lists) still to be delivered
    calendarData,         \* the event list of the last renderCalendar call
    gridDates,            \* renderCalendar: the dates of the grid cells
    multiDayEvents,       \* renderCalendar: the week segments
    singleDayEvents,      \* renderCalendar: date key -> timed events of the day
    cellDisplayRowCount,  \* renderCalendar: cell index -> display rows
    globalRowOccupancy,   \* organizeEventsForGrid: lane -> cells taken, at its return
    phase,                \* "empty", "rendered" (frame pending) or "observing"
    dayCells,             \* DOM: per cell, margin, timed elements, "+N more" element
    overlay,              \* DOM: the spanning elements, in the order of multiDayEvents
    offsetHeight,         \* daysGrid.offsetHeight as last read by a callback
    cellLimits,           \* ResizeObserver callback: cell index -> maxVisibleSpanning
    cellHidden,           \* ResizeObserver callback: cell index -> visibleTimed, totalHidden
    previousPass,         \* history: height and shown counts of the callback before the last
    firstPass,            \* history: input and layout of the first renderCalendar call,
                          \*   number of calls, number of calls with another input
    compactionInput,      \* calculateDisplayRows alone: two segment lists and a row
    compactionResult,     \* calculateDisplayRows alone: the two results
    clockMinutes,         \* kiosk: the minute of the day of the clock (new Date())
    kioskConfig,          \* kiosk: window.kioskConfig, three "HH:MM" strings
    currentMode,          \* kiosk: the mode applied last, "null" before the first
    display,              \* kiosk: the classes and inline styles applyKioskMode sets
    styleWrites,          \* kiosk: how often applyKioskMode has written the styles
    kioskChecked,         \* kiosk: the interval has fired in this minute
    configFetch           \* app: the config request, "pending", "loaded" or "failed"

calendarVars ==
    <<today, inbox, calendarData, gridDates, multiDayEvents, singleDayEvents,
      cellDisplayRowCount, globalRowOccupancy, phase, dayCells, overlay,
      offsetHeight, cellLimits, cellHidden, previousPass, firstPass,
      compactionInput, compactionResult>>

kioskVars ==
    <<clockMinutes, kioskConfig, currentMode, display, styleWrites, kioskChecked,
      configFetch>>

vars == <<calendarVars, kioskVars>>

(***************************************************************************)
(* The Date built-in, as far as calendar.js uses it.                       *)
(***************************************************************************)
IsLeapYear(y) == (y % 4 = 0 /\ y % 100 # 0) \/ y % 400 = 0

LeapsBefore(y) == ((y - 1) \div 4) - ((y - 1) \div 100) + ((y - 1) \div 400)

\* Days from 1970-01-01 to January 1st of year y (477 leap days before 1970).
DaysBeforeYear(y) == 365 * (y - 1970) + (LeapsBefore(y) - 477)

MonthLength(y, m) ==
    IF m = 1 THEN (IF IsLeapYear(y) THEN 29 ELSE 28)
    ELSE IF m \in {3, 5, 8, 10} THEN 30 ELSE 31

\* Days of a common year before month m (0-based).
CumulativeDays == <<0, 31, 59, 90, 120, 151, 181, 212, 243, 273, 304, 334>>

DaysBeforeMonth(y, m) ==
    CumulativeDays[m + 1] + (IF m > 1 /\ IsLeapYear(y) THEN 1 ELSE 0)

\* new Date(year, month, day): month and day outside their range roll over.
NewDate(year, month, day) ==
    LET y == year + (month \div 12)
        m == month % 12
    IN  DaysBeforeYear(y) + DaysBeforeMonth(y, m) + (day - 1)

getFullYear(date) ==
    LET guess == 1970 + (date \div 365)
    IN  IF DaysBeforeYear(guess) > date THEN guess - 1 ELSE guess

\* The month holding day-of-year doy (0-based): month doy \div 31 or the next.
MonthOfYearDay(y, doy) ==
    LET guess == doy \div 31
    IN  IF guess < 11 /\ DaysBeforeMonth(y, guess + 1) <= doy THEN guess + 1 ELSE guess

getMonth(date) ==
    LET y == getFullYear(date)
    IN  MonthOfYearDay(y, date - DaysBeforeYear(y))

getDate(date) ==
    LET y == getFullYear(date)
    IN  date - DaysBeforeYear(y) - DaysBeforeMonth(y, getMonth(date)) + 1

\* The three local fields of a Date at once.
DateFields(date) ==
    LET y   == getFullYear(date)
        doy == date - DaysBeforeYear(y)
        m   == MonthOfYearDay(y, doy)
    IN  [year |-> y, month |-> m, date |-> doy - DaysBeforeMonth(y, m) + 1]

\* getDay(): 0 = Sunday .. 6 = Saturday; 1970-01-01 was a Thursday.
getDay(date) == (date + 4) % 7

(***************************************************************************)
(* calendar.js helpers                                                     *)
(***************************************************************************)
\* The weekday of day 1 counted from Sunday, as getDay gives it.
getFirstDayOfMonthFromSunday(year, month) == getDay(NewDate(year, month, 1))

getFirstDayOfMonth(year, month) ==
    LET day == getDay(NewDate(year, month, 1))
    IN  IF day = 0 THEN 6 ELSE day - 1

\* A slip in the month argument: day 0 of the month itself.
getDaysInMonthOfPrevious(year, month) == getDate(NewDate(year, month, 0))

getDaysInMonth(year, month) == getDate(NewDate(year, month + 1, 0))

\* The key string YYYY-MM-DD, kept as its three numbers.
getDateKey(date) ==
    LET f == DateFields(date) IN <<f.year, f.month + 1, f.date>>

(***************************************************************************)
(* renderCalendar, lines 575-599: the dates of the grid.                   *)
(***************************************************************************)
PrevMonthDays(currentYear, currentMonth) ==
    LET firstDay        == getFirstDayOfMonth(currentYear, currentMonth)
        daysInPrevMonth == getDaysInMonth(currentYear, currentMonth - 1)
    IN  [k \in 1..firstDay |->
            NewDate(currentYear, currentMonth - 1, daysInPrevMonth - (firstDay - k))]

CurrentMonthDays(currentYear, currentMonth) ==
    [day \in 1..getDaysInMonth(currentYear, currentMonth) |->
        NewDate(currentYear, currentMonth, day)]

RemainingCells(totalCells) ==
    IF totalCells % 7 = 0 THEN 0 ELSE 7 - (totalCells % 7)

NextMonthDays(currentYear, currentMonth, totalCells) ==
    [day \in 1..RemainingCells(totalCells) |->
        NewDate(currentYear, currentMonth + 1, day)]

BuildGridDates(currentYear, currentMonth) ==
    LET head == PrevMonthDays(currentYear, currentMonth)
               \o CurrentMonthDays(currentYear, currentMonth)
    IN  head \o NextMonthDays(currentYear, currentMonth, Len(head))

(***************************************************************************)
(* Events.  An event is [summary, start, end, all_day]; start and end are  *)
(* instants [day, sec] in local time, or NoDate when the field is missing. *)
(***************************************************************************)
NoDate == [day |-> 0, sec |-> -1]

Undefined == -1

\* parseEventDate with a missing string taken as the start of 1 January 1970.
parseEventDateEpoch(isoString, now) ==
    IF isoString = NoDate THEN [day |-> 0, sec |-> 0] ELSE isoString

\* parseEventDate: a missing string becomes the current instant.
parseEventDate(isoString, now) ==
    IF isoString = NoDate THEN now ELSE isoString

\* The instant as a number, as the subtraction of two Dates sees it.
TimeValue(date) == date.day * 86400 + date.sec

getHours(date) == date.sec \div 3600

getMinutes(date) == (date.sec % 3600) \div 60

getSeconds(date) == date.sec % 60

Max(a, b) == IF a >= b THEN a ELSE b

Min(a, b) == IF a <= b THEN a ELSE b

\* The duration without the lower clamp of line 124.
getEventDurationDaysUnclamped(event, now) ==
    parseEventDate(event.end, now).day - parseEventDate(event.start, now).day

getEventDurationDays(event, now) ==
    LET start    == parseEventDate(event.start, now)
        end      == parseEventDate(event.end, now)
        startDay == NewDate(getFullYear(start.day), getMonth(start.day), getDate(start.day))
        endDay   == NewDate(getFullYear(end.day), getMonth(end.day), getDate(end.day))
        diffDays == endDay - startDay
    IN  IF event.all_day /\ diffDays > 0 THEN diffDays ELSE Max(1, diffDays)

isMultiDayEvent(event, now) == getEventDurationDays(event, now) > 1

\* The end date without the midnight adjustment.
EffectiveEndDateUnshifted(event, now) == parseEventDate(event.end, now)

\* Lines 228-237: a timed event that ends at 00:00:00 ends the day before.
EffectiveEndDate(event, now) ==
    LET endDate == parseEventDate(event.end, now)
    IN  IF ~event.all_day /\ getHours(endDate) = 0 /\ getMinutes(endDate) = 0
                          /\ getSeconds(endDate) = 0
        THEN [endDate EXCEPT !.day = NewDate(getFullYear(endDate.day),
                                             getMonth(endDate.day),
                                             getDate(endDate.day) - 1)]
        ELSE endDate

\* Lines 206-210: dateToIndex over the key of every grid date (0-based).
RECURSIVE DateKeys(_)
DateKeys(dates) ==
    IF dates = << >> THEN << >>
    ELSE Append(DateKeys(SubSeq(dates, 1, Len(dates) - 1)), getDateKey(dates[Len(dates)]))

DateToIndex(keys, key) ==
    LET hits == {i \in 1..Len(keys) : keys[i] = key}
    IN  IF hits = {} THEN Undefined
        ELSE (CHOOSE i \in hits : \A j \in hits : j <= i) - 1

\* Lines 216-220: stable sort by start instant.
RECURSIVE InsertByStart(_, _, _)
InsertByStart(event, sorted, now) ==
    IF sorted = << >> THEN <<event>>
    ELSE LET last == sorted[Len(sorted)]
         IN  IF TimeValue(parseEventDate(last.start, now))
                    <= TimeValue(parseEventDate(event.start, now))
             THEN Append(sorted, event)
             ELSE Append(InsertByStart(event, SubSeq(sorted, 1, Len(sorted) - 1), now), last)

\* The events in the order of the list, not sorted.
EventsInListOrder(events, now) == events

RECURSIVE SortedEvents(_, _)
SortedEvents(events, now) ==
    IF events = << >> THEN << >>
    ELSE InsertByStart(events[Len(events)],
                       SortedEvents(SubSeq(events, 1, Len(events) - 1), now), now)

(***************************************************************************)
(* organizeEventsForGrid, the multi-day branch (lines 226-374).            *)
(***************************************************************************)
FirstWeekIndex(startIndex) ==
    IF startIndex # Undefined THEN startIndex \div 7 ELSE 0

LastWeekIndex(endIndex, gridLength) ==
    IF endIndex # Undefined THEN endIndex \div 7 ELSE (gridLength - 1) \div 7

ColStart(weekIdx, firstWeekIndex, startIndex) ==
    IF weekIdx = firstWeekIndex /\ startIndex # Undefined THEN startIndex % 7 ELSE 0

\* The end column with the end date of an all-day event taken as its last day.
ColEndOfEndDate(weekIdx, lastWeekIndex, endIndex, allDay) ==
    IF weekIdx = lastWeekIndex /\ endIndex # Undefined THEN endIndex % 7 ELSE 6

\* Lines 264-278.
ColEnd(weekIdx, lastWeekIndex, endIndex, allDay) ==
    IF weekIdx = lastWeekIndex /\ endIndex # Undefined
    THEN (IF allDay THEN (endIndex % 7) - 1 ELSE endIndex % 7)
    ELSE 6

\* Lines 254-287, the array occupiedCells as the set of its elements.
OccupiedCells(startIndex, endIndex, allDay, gridLength) ==
    LET firstWeekIndex == FirstWeekIndex(startIndex)
        lastWeekIndex  == LastWeekIndex(endIndex, gridLength)
    IN  UNION { LET colStart == ColStart(weekIdx, firstWeekIndex, startIndex)
                    colEnd   == ColEnd(weekIdx, lastWeekIndex, endIndex, allDay)
                IN  {weekIdx * 7 + col : col \in colStart..colEnd}
              : weekIdx \in firstWeekIndex..lastWeekIndex }

\* Lines 292-313: rows are tried from 0 upward; a row is the set of its taken cells.
\* A row accepted as soon as one of the cells is free in it.
CanFitSomeCell(row, occupiedCells) == \E cellIndex \in occupiedCells : cellIndex \notin row

CanFit(row, occupiedCells) == \A cellIndex \in occupiedCells : cellIndex \notin row

FittingRows(occupancy, occupiedCells) ==
    {rowIdx \in 0..(Len(occupancy) - 1) :
        CanFit(occupancy[rowIdx + 1], occupiedCells)}

\* The lane search that opens a new lane for every event.
FindEventRowAlwaysNew(occupancy, occupiedCells) == Len(occupancy)

FindEventRow(occupancy, occupiedCells) ==
    LET fitting == FittingRows(occupancy, occupiedCells)
    IN  IF fitting # {}
        THEN CHOOSE rowIdx \in fitting : \A other \in fitting : rowIdx <= other
        ELSE Len(occupancy)

\* Lines 315-327.
MarkOccupied(occupancy, eventRow, occupiedCells) ==
    LET rows == IF eventRow = Len(occupancy)
                THEN Append(occupancy, {})
                ELSE occupancy
    IN  [rows EXCEPT ![eventRow + 1] = @ \cup occupiedCells]

\* The span with every end column taken as inclusive.
SegmentSpanInclusive(weekIdx, lastWeekIndex, endIndex, allDay, colStart) ==
    IF weekIdx = lastWeekIndex /\ endIndex # Undefined
    THEN (endIndex % 7) - colStart + 1
    ELSE 7 - colStart

\* Lines 339-353.
SegmentSpan(weekIdx, lastWeekIndex, endIndex, allDay, colStart) ==
    IF weekIdx = lastWeekIndex /\ endIndex # Undefined
    THEN (IF allDay THEN (endIndex % 7) - colStart ELSE (endIndex % 7) - colStart + 1)
    ELSE 7 - colStart

\* A lane that is kept only in the first week of the event.
SegmentLaneFirstWeekOnly(eventRow, weekIdx, firstWeekIndex) ==
    IF weekIdx = firstWeekIndex THEN eventRow ELSE 0

\* Lines 364-372, line 369: the lane stored with the segment.
SegmentLane(eventRow, weekIdx, firstWeekIndex) == eventRow

\* Lines 358-372.
MakeSegment(event, weekIdx, firstWeekIndex, lastWeekIndex, startIndex, endIndex, eventRow) ==
    LET colStart == ColStart(weekIdx, firstWeekIndex, startIndex)
    IN  [summary        |-> event.summary,
         start          |-> event.start,
         end            |-> event.end,
         all_day        |-> event.all_day,
         gridColumn     |-> colStart,
         gridRow        |-> weekIdx,
         span           |-> SegmentSpan(weekIdx, lastWeekIndex, endIndex, event.all_day, colStart),
         eventRow       |-> SegmentLane(eventRow, weekIdx, firstWeekIndex),
         showLeftArrow  |-> (weekIdx = firstWeekIndex /\ startIndex = Undefined)
                                \/ weekIdx > firstWeekIndex,
         showRightArrow |-> (weekIdx = lastWeekIndex /\ endIndex = Undefined)
                                \/ weekIdx < lastWeekIndex]

\* The test that keeps every candidate segment.
KeepsSegmentAlways(span) == TRUE

\* Line 356: a candidate segment with a span of 0 or less is skipped.
KeepsSegment(span) == ~(span <= 0)

\* Lines 330-373: one segment per week, weeks ascending, empty spans skipped.
RECURSIVE EventSegments(_, _, _, _, _, _)
EventSegments(event, weekIdx, lastWeekIndex, startIndex, endIndex, eventRow) ==
    IF weekIdx > lastWeekIndex THEN << >>
    ELSE LET seg == MakeSegment(event, weekIdx, FirstWeekIndex(startIndex), lastWeekIndex,
                                startIndex, endIndex, eventRow)
             rest == EventSegments(event, weekIdx + 1, lastWeekIndex, startIndex, endIndex, eventRow)
         IN  IF KeepsSegment(seg.span) THEN <<seg>> \o rest ELSE rest

\* The branch taken on the duration alone.
TakesMultiDayBranchByDuration(multiDay, allDay) == multiDay

\* Line 226: the test that sends an event to the multi-day branch.
TakesMultiDayBranch(multiDay, allDay) == multiDay \/ allDay

\* Line 246: an event is laid out when its start or its end is a grid date.
RendersInGrid(startIndex, endIndex) ==
    startIndex # Undefined \/ (endIndex # Undefined /\ startIndex = Undefined)

\* The key of the day on which a single-day event ends.
SingleDayBucketKeyOfEnd(event, now) == getDateKey(parseEventDate(event.end, now).day)

\* Lines 223 and 377: a single-day event is filed under the key of its start date.
SingleDayBucketKey(event, now) == getDateKey(parseEventDate(event.start, now).day)

\* Lines 222-382: the body of sortedEvents.forEach for one event.  acc holds
\* globalRowOccupancy, multiDayEventsList and singleDayEvents.
PlaceEvent(acc, event, keys, now) ==
    LET startDate == parseEventDate(event.start, now)
        multiDay  == isMultiDayEvent(event, now)
    IN  IF TakesMultiDayBranch(multiDay, event.all_day)
        THEN LET endDate    == EffectiveEndDate(event, now)
                 startIndex == DateToIndex(keys, getDateKey(startDate.day))
                 endIndex   == DateToIndex(keys, getDateKey(endDate.day))
             IN  IF RendersInGrid(startIndex, endIndex)
                 THEN LET occupiedCells == OccupiedCells(startIndex, endIndex,
                                                         event.all_day, Len(keys))
                          eventRow      == FindEventRow(acc.globalRowOccupancy, occupiedCells)
                      IN  [acc EXCEPT
                             !.globalRowOccupancy =
                                 MarkOccupied(@, eventRow, occupiedCells),
                             !.multiDayEventsList =
                                 @ \o EventSegments(event, FirstWeekIndex(startIndex),
                                                    LastWeekIndex(endIndex, Len(keys)),
                                                    startIndex, endIndex, eventRow)]
                 ELSE acc
        ELSE LET dateKey == SingleDayBucketKey(event, now)
             IN  IF dateKey \in DOMAIN acc.singleDayEvents
                 THEN [acc EXCEPT !.singleDayEvents[dateKey] = Append(@, event)]
                 ELSE acc

RECURSIVE PlaceEvents(_, _, _, _)
PlaceEvents(acc, sortedEvents, keys, now) ==
    IF sortedEvents = << >> THEN acc
    ELSE PlaceEvents(PlaceEvent(acc, Head(sortedEvents), keys, now),
                     Tail(sortedEvents), keys, now)

\* The occupancy table left by the pass before.
LeftoverRowOccupancy == globalRowOccupancy

\* Line 213: the occupancy table a pass starts from.
EmptyRowOccupancy == << >>

\* Lines 194-385.  The result also carries the final occupancy table.
organizeEventsForGrid(events, dates, now) ==
    LET keys == DateKeys(dates)
        acc0 == [globalRowOccupancy |-> EmptyRowOccupancy,
                 multiDayEventsList |-> << >>,
                 singleDayEvents    |-> [k \in {keys[i] : i \in 1..Len(keys)} |-> << >>]]
    IN  PlaceEvents(acc0, SortedEvents(events, now), keys, now)

(***************************************************************************)
(* calculateDisplayRows (lines 142-186).                                   *)
(***************************************************************************)
\* The distinct lanes of all weeks together.
UniqueEventRowsOfAllWeeks(segments, gridRow) ==
    {segments[i].eventRow : i \in 1..Len(segments)}

\* Line 162: the distinct lanes of one week; the ascending order is their rank.
UniqueEventRows(segments, gridRow) ==
    {segments[i].eventRow :
        i \in {j \in 1..Len(segments) : segments[j].gridRow = gridRow}}

\* The display row taken to be the global lane itself.
EventRowToDisplayRowGlobal(segments, gridRow, eventRow) == eventRow

\* Lines 165-168: position of a lane in the sorted list of the week's lanes.
EventRowToDisplayRow(segments, gridRow, eventRow) ==
    Cardinality({r \in UniqueEventRows(segments, gridRow) : r < eventRow})

SegmentCells(seg) ==
    {seg.gridRow * 7 + col : col \in seg.gridColumn..(seg.gridColumn + seg.span - 1)}

SetMax(S) == IF S = {} THEN 0 ELSE CHOOSE x \in S : \A y \in S : y <= x

\* Lines 170-182: per cell, the largest display row + 1 of the segments over it.
calculateDisplayRows(segments, dates) ==
    [cellIndex \in 0..(Len(dates) - 1) |->
        SetMax({EventRowToDisplayRow(segments, segments[i].gridRow,
                                     segments[i].eventRow) + 1 :
                  i \in {j \in 1..Len(segments) :
                            cellIndex \in SegmentCells(segments[j])}})]

(***************************************************************************)
(* Kiosk display modes (static/js/kiosk.js) and their callers in app.js.   *)
(* A time string "HH:MM" is kept as the pair of numbers that               *)
(* split(':').map(Number) yields; a field the API leaves out is NoTime.    *)
(***************************************************************************)
NoTime == << >>

MinutesPerDay == 24 * 60

\* constants.js, DefaultConfig: '00:00', '00:01' and '23:59'.
DefaultKioskConfig ==
    [morning_mode_start |-> <<0, 0>>,
     day_mode_start     |-> <<0, 1>>,
     night_mode_start   |-> <<23, 59>>]

parseTime(timeStr) == timeStr[1] * 60 + timeStr[2]

getCurrentMode(currentTime, config) ==
    LET morningStart == parseTime(config.morning_mode_start)
        dayStart     == parseTime(config.day_mode_start)
        nightStart   == parseTime(config.night_mode_start)
    IN  IF currentTime >= nightStart \/ currentTime < morningStart THEN "night"
        ELSE IF currentTime >= dayStart THEN "day"
        ELSE "morning"

\* The page as loaded, and applyKioskMode after "Reset ALL styles first".
StylesReset ==
    [bodyNightMode    |-> FALSE,
     topContainer     |-> [display |-> "", gridTemplateColumns |-> ""],
     bottomContainer  |-> [display |-> ""],
     mapRects         |-> [display |-> ""],
     otherBottomRects |-> [display |-> ""],
     clockNightMode   |-> FALSE]

\* The styles applyKioskMode leaves for a mode.
StylesOf(mode) ==
    IF mode = "day"
    THEN [StylesReset EXCEPT !.mapRects.display = "none",
                             !.topContainer.gridTemplateColumns = "1fr 1fr"]
    ELSE IF mode = "night"
    THEN [StylesReset EXCEPT !.bodyNightMode = TRUE,
                             !.topContainer.display = "none",
                             !.otherBottomRects.display = "none",
                             !.clockNightMode = TRUE]
    ELSE StylesReset

\* applyKioskMode without the early return.
ModeUnchangedNever(mode, current) == FALSE

\* "Only update if mode changed".
ModeUnchanged(mode, current) == mode = current

\* How often the styles are written in a run.
MaxStyleWrites == 4

\* applyKioskMode under the configuration that is in force when it runs.
applyKioskMode(config) ==
    \E mode \in {getCurrentMode(clockMinutes, config)} :
        IF ModeUnchanged(mode, currentMode)
        THEN UNCHANGED <<currentMode, display, styleWrites>>
        ELSE /\ styleWrites < MaxStyleWrites
             /\ currentMode' = mode
             /\ display' = StylesOf(mode)
             /\ styleWrites' = styleWrites + 1

\* The interval of initializeApp fires (every second).
kioskCheck ==
    /\ applyKioskMode(kioskConfig)
    /\ kioskChecked' = TRUE
    /\ UNCHANGED <<clockMinutes, kioskConfig, configFetch, calendarVars>>

\* cfg.field || DefaultConfig.FIELD
OrDefault(value, default) == IF value = NoTime THEN default ELSE value

\* Answers of the configuration endpoint.
ApiConfigs ==
    { DefaultKioskConfig,
      [morning_mode_start |-> <<5, 30>>, day_mode_start |-> <<8, 0>>,
       night_mode_start |-> <<22, 0>>],
      [morning_mode_start |-> NoTime, day_mode_start |-> <<8, 0>>,
       night_mode_start |-> <<22, 0>>],
      [morning_mode_start |-> <<8, 0>>, day_mode_start |-> <<5, 30>>,
       night_mode_start |-> <<22, 0>>] }

\* fetchConfigAndSetupIntervals, the answer has arrived.
configFetched ==
    /\ configFetch = "pending"
    /\ \E cfg \in ApiConfigs :
       \E loaded \in {[morning_mode_start |->
                           OrDefault(cfg.morning_mode_start,
                                     DefaultKioskConfig.morning_mode_start),
                       day_mode_start |->
                           OrDefault(cfg.day_mode_start,
                                     DefaultKioskConfig.day_mode_start),
                       night_mode_start |->
                           OrDefault(cfg.night_mode_start,
                                     DefaultKioskConfig.night_mode_start)]} :
        /\ kioskConfig' = loaded
        /\ applyKioskMode(loaded)
    /\ configFetch' = "loaded"
    /\ UNCHANGED <<clockMinutes, kioskChecked, calendarVars>>

\* fetchConfigAndSetupIntervals, the request has failed.
configFetchFailed ==
    /\ configFetch = "pending"
    /\ applyKioskMode(kioskConfig)
    /\ configFetch' = "failed"
    /\ UNCHANGED <<clockMinutes, kioskConfig, kioskChecked, calendarVars>>

\* The clock reaches the next minute; the interval has fired since the last.
minutePasses ==
    /\ kioskChecked
    /\ clockMinutes' = (clockMinutes + 1) % MinutesPerDay
    /\ kioskChecked' = FALSE
    /\ UNCHANGED <<kioskConfig, currentMode, display, styleWrites, configFetch,
                   calendarVars>>

(***************************************************************************)
(* renderCalendar (lines 485-858), up to the animation frame request.      *)
(***************************************************************************)
Now == [day |-> today, sec |-> 0]

initialMaxSpanning == 4

initialMaxTimed == 3

\* createSpanningEvent, lines 441-442, and the callback, lines 730-733.
dayNumberOffsetPx == 26

eventRowHeightPx == 22

moreIndicatorHeightPx == 18

timedEventHeightPx == 18

\* Lines 615-670: the cell as first rendered.
InitialDayCell(dayTimedEvents, spanningEventRows) ==
    [marginTop |-> IF spanningEventRows > 0
                   THEN Min(spanningEventRows, initialMaxSpanning) * eventRowHeightPx
                   ELSE 0,
     timed     |-> [i \in 1..Min(Len(dayTimedEvents), initialMaxTimed) |-> "shown"],
     more      |-> [text |-> 0, display |-> "none"]]

renderCalendar ==
    /\ inbox # << >>
    /\ \E data \in {Head(inbox)} :
       \E dates \in {BuildGridDates(getFullYear(today), getMonth(today))} :
       \E organized \in {organizeEventsForGrid(data, dates, Now)} :
       \E rowCount \in {calculateDisplayRows(organized.multiDayEventsList, dates)} :
        /\ inbox' = Tail(inbox)
        /\ calendarData' = data
        /\ gridDates' = dates
        /\ multiDayEvents' = organized.multiDayEventsList
        /\ singleDayEvents' = organized.singleDayEvents
        /\ globalRowOccupancy' = organized.globalRowOccupancy
        /\ cellDisplayRowCount' = rowCount
        /\ dayCells' = [index \in 0..(Len(dates) - 1) |->
                           InitialDayCell(organized.singleDayEvents[getDateKey(dates[index + 1])],
                                          rowCount[index])]
        /\ overlay' = << >>
        /\ phase' = "rendered"
        /\ cellLimits' = << >>
        /\ cellHidden' = << >>
        /\ previousPass' = << >>
        /\ firstPass' = IF firstPass # << >>
                        THEN [firstPass EXCEPT
                                 !.passes = @ + 1,
                                 !.others = @ + (IF data # firstPass.calendarData
                                                 THEN 1 ELSE 0)]
                        ELSE [calendarData        |-> data,
                              gridDates           |-> dates,
                              multiDayEvents      |-> organized.multiDayEventsList,
                              singleDayEvents     |-> organized.singleDayEvents,
                              cellDisplayRowCount |-> rowCount,
                              passes              |-> 1,
                              others              |-> 0]
        /\ UNCHANGED <<today, offsetHeight, compactionInput, compactionResult, kioskVars>>

Init ==
    /\ calendarData = << >>
    /\ gridDates = << >>
    /\ multiDayEvents = << >>
    /\ singleDayEvents = << >>
    /\ cellDisplayRowCount = << >>
    /\ globalRowOccupancy = << >>
    /\ phase = "empty"
    /\ dayCells = << >>
    /\ overlay = << >>
    /\ offsetHeight = 0
    /\ cellLimits = << >>
    /\ cellHidden = << >>
    /\ previousPass = << >>
    /\ firstPass = << >>
    /\ compactionResult = << >>
    /\ kioskConfig = DefaultKioskConfig
    /\ currentMode = "null"
    /\ display = StylesReset
    /\ styleWrites = 0
    /\ kioskChecked = FALSE
    /\ configFetch = "pending"

(***************************************************************************)
(* The animation frame callback (lines 681-854) and the ResizeObserver     *)
(* callback (lines 726-851).  Heights are kept multiplied by numWeeks, so  *)
(* that daysGrid.offsetHeight / numWeeks needs no fractions.               *)
(***************************************************************************)
NumWeeks(dates) == (Len(dates) + 6) \div 7

\* Lines 702-707: sort by gridRow, within a week by eventRow descending (stable).
RenderBefore(a, b) ==
    IF a.gridRow # b.gridRow THEN a.gridRow < b.gridRow ELSE a.eventRow >= b.eventRow

RECURSIVE InsertForRender(_, _)
InsertForRender(seg, sorted) ==
    IF sorted = << >> THEN <<seg>>
    ELSE LET last == sorted[Len(sorted)]
         IN  IF RenderBefore(last, seg)
             THEN Append(sorted, seg)
             ELSE Append(InsertForRender(seg, SubSeq(sorted, 1, Len(sorted) - 1)), last)

RECURSIVE SortForRender(_)
SortForRender(segments) ==
    IF segments = << >> THEN << >>
    ELSE InsertForRender(segments[Len(segments)],
                         SortForRender(SubSeq(segments, 1, Len(segments) - 1)))

\* The top taken from the rank of the lane among the lanes of the segment's week.
ScaledTopCompacted(seg, height, numWeeks) ==
    seg.gridRow * height
    + numWeeks * (dayNumberOffsetPx
                  + EventRowToDisplayRow(multiDayEvents, seg.gridRow, seg.eventRow)
                    * eventRowHeightPx)

\* Lines 443 and 743: top of a spanning element, times numWeeks.
ScaledTop(seg, height, numWeeks) ==
    seg.gridRow * height + numWeeks * (dayNumberOffsetPx + seg.eventRow * eventRowHeightPx)

animationFrame(height) ==
    /\ phase = "rendered"
    /\ \E sortedEvents \in {SortForRender(multiDayEvents)} :
        /\ multiDayEvents' = sortedEvents
        /\ overlay' = [i \in 1..Len(sortedEvents) |->
                          [top     |-> ScaledTop(sortedEvents[i], height, NumWeeks(gridDates)),
                           display |-> "shown"]]
    /\ offsetHeight' = height
    /\ phase' = "observing"
    /\ UNCHANGED <<kioskVars, today, inbox, calendarData, gridDates, singleDayEvents,
                   cellDisplayRowCount, globalRowOccupancy, dayCells, cellLimits,
                   cellHidden, previousPass, firstPass, compactionInput, compactionResult>>

\* Line 736, times numWeeks.
AvailableHeight(height, numWeeks) == height - numWeeks * dayNumberOffsetPx

\* Lines 757-773, the limit of a cell without the floor of 1 lane.
MaxVisibleSpanningNoFloor(totalSpanningInCell, timedCount, available, numWeeks) ==
    LET totalNeeded == totalSpanningInCell * eventRowHeightPx + timedCount * timedEventHeightPx
    IN  IF totalNeeded * numWeeks <= available
        THEN totalSpanningInCell
        ELSE LET reservedForTimed == IF timedCount > 0 THEN timedEventHeightPx ELSE 0
                 room == available - numWeeks * (moreIndicatorHeightPx + reservedForTimed)
             IN  Min(Max(0, room \div (eventRowHeightPx * numWeeks)), totalSpanningInCell)

\* Lines 757-773 with the test of line 763 turned around.
MaxVisibleSpanningFitInverted(totalSpanningInCell, timedCount, available, numWeeks) ==
    LET totalNeeded == totalSpanningInCell * eventRowHeightPx + timedCount * timedEventHeightPx
    IN  IF totalNeeded * numWeeks >= available
        THEN totalSpanningInCell
        ELSE LET reservedForTimed == IF timedCount > 0 THEN timedEventHeightPx ELSE 0
                 room == available - numWeeks * (moreIndicatorHeightPx + reservedForTimed)
             IN  Min(Max(1, room \div (eventRowHeightPx * numWeeks)), totalSpanningInCell)

\* Lines 757-773 without the cap of line 772 at the lanes of the cell.
MaxVisibleSpanningUncapped(totalSpanningInCell, timedCount, available, numWeeks) ==
    LET totalNeeded == totalSpanningInCell * eventRowHeightPx + timedCount * timedEventHeightPx
    IN  IF totalNeeded * numWeeks <= available
        THEN totalSpanningInCell
        ELSE LET reservedForTimed == IF timedCount > 0 THEN timedEventHeightPx ELSE 0
                 room == available - numWeeks * (moreIndicatorHeightPx + reservedForTimed)
             IN  Max(1, room \div (eventRowHeightPx * numWeeks))

\* Lines 757-773: maxVisibleSpanning of a cell.
MaxVisibleSpanning(totalSpanningInCell, timedCount, available, numWeeks) ==
    LET totalNeeded == totalSpanningInCell * eventRowHeightPx + timedCount * timedEventHeightPx
    IN  IF totalNeeded * numWeeks <= available
        THEN totalSpanningInCell
        ELSE LET reservedForTimed == IF timedCount > 0 THEN timedEventHeightPx ELSE 0
                 room == available - numWeeks * (moreIndicatorHeightPx + reservedForTimed)
             IN  Min(Max(1, room \div (eventRowHeightPx * numWeeks)), totalSpanningInCell)

\* visibleTimed with the indicator's height taken off in every cell.
VisibleTimedIndicatorReserved(totalSpanningInCell, maxVisibleSpanning, timedCount, available, numWeeks) ==
    LET usedHeight == maxVisibleSpanning * eventRowHeightPx
        remaining  == available - numWeeks * (usedHeight + moreIndicatorHeightPx)
    IN  Min(timedCount, Max(0, remaining \div (timedEventHeightPx * numWeeks)))

\* Lines 809-813: visibleTimed of a cell.
VisibleTimed(totalSpanningInCell, maxVisibleSpanning, timedCount, available, numWeeks) ==
    LET usedHeight == maxVisibleSpanning * eventRowHeightPx
        indicator  == IF totalSpanningInCell > maxVisibleSpanning
                      THEN moreIndicatorHeightPx ELSE 0
        remaining  == available - numWeeks * (usedHeight + indicator)
    IN  Min(timedCount, Max(0, remaining \div (timedEventHeightPx * numWeeks)))

\* Lines 779-800: display of a spanning element.
SpanningDisplay(seg, limits) ==
    IF \E col \in seg.gridColumn..(seg.gridColumn + seg.span - 1) :
          seg.eventRow < (IF seg.gridRow * 7 + col \in DOMAIN limits
                          THEN limits[seg.gridRow * 7 + col] ELSE 0)
    THEN "flex" ELSE "none"

TimedOfCell(index) == singleDayEvents[getDateKey(gridDates[index + 1])]

\* The cell update in which a marker, once hidden, is never displayed again.
ResizedDayCellKeepsHidden(cell, maxVisibleSpanning, visibleTimed, totalHidden) ==
    [marginTop |-> maxVisibleSpanning * eventRowHeightPx,
     timed     |-> [i \in 1..Len(cell.timed) |->
                       IF i - 1 >= visibleTimed \/ cell.timed[i] = "none"
                       THEN "none" ELSE "flex"],
     more      |-> IF totalHidden > 0
                   THEN [text |-> totalHidden, display |-> "block"]
                   ELSE [cell.more EXCEPT !.display = "none"]]

\* Lines 803-850 for one cell.
ResizedDayCell(cell, maxVisibleSpanning, visibleTimed, totalHidden) ==
    [marginTop |-> maxVisibleSpanning * eventRowHeightPx,
     timed     |-> [i \in 1..Len(cell.timed) |->
                       IF i - 1 >= visibleTimed THEN "none" ELSE "flex"],
     more      |-> IF totalHidden > 0
                   THEN [text |-> totalHidden, display |-> "block"]
                   ELSE [cell.more EXCEPT !.display = "none"]]

DisplayedTimed(cell) == Cardinality({i \in 1..Len(cell.timed) : cell.timed[i] # "none"})

resizeObserver(height) ==
    /\ phase = "observing"
    /\ \E numWeeks \in {NumWeeks(gridDates)} :
       \E available \in {AvailableHeight(height, numWeeks)} :
       \E timedCount \in {[index \in DOMAIN dayCells |-> Len(TimedOfCell(index))]} :
       \E limits \in {[index \in DOMAIN dayCells |->
                         MaxVisibleSpanning(cellDisplayRowCount[index], timedCount[index],
                                            available, numWeeks)]} :
       \E hidden \in {[index \in DOMAIN dayCells |->
                         LET visibleTimed ==
                                 VisibleTimed(cellDisplayRowCount[index], limits[index],
                                              timedCount[index], available, numWeeks)
                         IN  [visibleTimed |-> visibleTimed,
                              totalHidden  |->
                                  Max(0, cellDisplayRowCount[index] - limits[index])
                                  + Max(0, timedCount[index] - visibleTimed)]]} :
        /\ overlay' = [i \in DOMAIN overlay |->
                          [top     |-> ScaledTop(multiDayEvents[i], height, numWeeks),
                           display |-> SpanningDisplay(multiDayEvents[i], limits)]]
        /\ dayCells' = [index \in DOMAIN dayCells |->
                           ResizedDayCell(dayCells[index], limits[index],
                                          hidden[index].visibleTimed,
                                          hidden[index].totalHidden)]
        /\ cellLimits' = limits
        /\ cellHidden' = hidden
        /\ offsetHeight' = height
        /\ previousPass' =
              IF cellLimits = << >> THEN << >>
              ELSE [offsetHeight |-> offsetHeight,
                    shown        |-> [index \in DOMAIN dayCells |->
                                         cellLimits[index] + DisplayedTimed(dayCells[index])]]
    /\ UNCHANGED <<kioskVars, today, inbox, calendarData, gridDates, multiDayEvents, singleDayEvents,
                   cellDisplayRowCount, globalRowOccupancy, phase, firstPass,
                   compactionInput, compactionResult>>

(***************************************************************************)
(* The grid for every month of a range of days.                            *)
(***************************************************************************)
ClockStart == NewDate(2023, 10, 20)

ClockSpanDays == 820

InitGrid ==
    /\ Init
    /\ compactionInput = << >>
    /\ today \in ClockStart..(ClockStart + ClockSpanDays)
    /\ clockMinutes = 0
    /\ inbox = << << >> >>

NextGrid == renderCalendar

SpecGrid == InitGrid /\ [][NextGrid]_vars

(***************************************************************************)
(* Properties of the grid.                                                 *)
(***************************************************************************)
TargetYear == getFullYear(today)

TargetMonth == getMonth(today)

InMonth(date, year, month) ==
    LET f == DateFields(date) IN f.year = year /\ f.month = month

PrevMonthOf(year, month) ==
    IF month = 0 THEN <<year - 1, 11>> ELSE <<year, month - 1>>

NextMonthOf(year, month) ==
    IF month = 11 THEN <<year + 1, 0>> ELSE <<year, month + 1>>

\* The grid holds days 1..N of the target month from position lead + 1 on,
\* only previous-month days before them and only next-month days after them.
GridHoldsMonthAt(lead) ==
    LET n    == MonthLength(TargetYear, TargetMonth)
        prev == PrevMonthOf(TargetYear, TargetMonth)
        next == NextMonthOf(TargetYear, TargetMonth)
    IN  /\ lead + n <= Len(gridDates)
        /\ \A d \in 1..n :
              DateFields(gridDates[lead + d]) =
                  [year |-> TargetYear, month |-> TargetMonth, date |-> d]
        /\ \A i \in 1..lead : InMonth(gridDates[i], prev[1], prev[2])
        /\ \A i \in (lead + n + 1)..Len(gridDates) : InMonth(gridDates[i], next[1], next[2])

\* C4: for every year and month the grid built by renderCalendar has a length
\* that is a multiple of 7 and contains days 1..N of the target month as one
\* ascending contiguous run, preceded only by days of the previous month and
\* followed only by days of the next month.
GridIsWholeWeeksAroundMonth ==
    phase # "empty" =>
        /\ Len(gridDates) % 7 = 0
        /\ \E lead \in 0..6 : GridHoldsMonthAt(lead)

\* A January grid that starts with December days of the year before.
JanuaryGridReachesBack ==
    /\ phase # "empty"
    /\ TargetMonth = 0
    /\ InMonth(gridDates[1], TargetYear - 1, 11)

\* The weekday of a date counted from Monday (Mon = 0 .. Sun = 6).
MondayBasedWeekday(date) == (getDay(date) + 6) % 7

\* C25: the grid starts with as many days of the previous month as the
\* Monday-based weekday of day 1 of the target month, every cell lies in the
\* column of the Monday-based weekday of its date, and the days of the next
\* month at the end are fewer than 7 and fill the last week.
GridIsMondayFirst ==
    phase # "empty" =>
        LET first    == NewDate(TargetYear, TargetMonth, 1)
            last     == NewDate(TargetYear, TargetMonth, MonthLength(TargetYear, TargetMonth))
            leading  == Cardinality({i \in 1..Len(gridDates) : gridDates[i] < first})
            trailing == Cardinality({i \in 1..Len(gridDates) : gridDates[i] > last})
        IN  /\ leading = MondayBasedWeekday(first)
            /\ \A i \in 1..Len(gridDates) :
                  (i - 1) % 7 = MondayBasedWeekday(gridDates[i])
            /\ \A i \in 1..(Len(gridDates) - 1) : gridDates[i + 1] = gridDates[i] + 1
            /\ trailing \in 0..6
            /\ Len(gridDates) = leading + MonthLength(TargetYear, TargetMonth) + trailing
            /\ Len(gridDates) % 7 = 0

\* The grid of a month that starts on a Sunday and needs six weeks.
SundayStartNeedsSixWeeks ==
    /\ phase = "rendered"
    /\ getDay(NewDate(TargetYear, TargetMonth, 1)) = 0
    /\ gridDates[7] = NewDate(TargetYear, TargetMonth, 1)
    /\ Len(gridDates) = 42

(***************************************************************************)
(* Layout passes over event lists, for the month of September 2026: its    *)
(* grid starts on Monday 31 August and has five weeks (cells 0..34).       *)
(***************************************************************************)
ReferenceToday == NewDate(2026, 8, 15)

GridOrigin == NewDate(2026, 7, 31)

Midnight == 0

Noon == 12 * 3600

\* Events by day offsets from the first grid date.
AllDayEvent(s, e) ==
    [summary |-> 0,
     start   |-> [day |-> GridOrigin + s, sec |-> Midnight],
     end     |-> [day |-> GridOrigin + e, sec |-> Midnight],
     all_day |-> TRUE]

TimedEvent(s, e, endSec) ==
    [summary |-> 0,
     start   |-> [day |-> GridOrigin + s, sec |-> Noon],
     end     |-> [day |-> GridOrigin + e, sec |-> endSec],
     all_day |-> FALSE]

\* The summary of an event in a list is its position.
Numbered(list) == [i \in 1..Len(list) |-> [list[i] EXCEPT !.summary = i]]

ListsOver(events, maxLen) ==
    UNION {{Numbered(l) : l \in [1..n -> events]} : n \in 0..maxLen}

EventA == AllDayEvent(0, 3)

EventB == AllDayEvent(2, 5)

LayoutEvents ==
    { EventA,                      \* Mon-Wed of week 0
      EventB,                      \* Wed-Fri of week 0
      AllDayEvent(4, 9),           \* Fri of week 0 to Tue of week 1
      AllDayEvent(3, 3),           \* all-day, end = start
      AllDayEvent(4, 2),           \* end before start
      TimedEvent(1, 4, Midnight),  \* Tue noon until midnight after Thu
      TimedEvent(6, 8, Noon),      \* Sun noon to Tue noon
      TimedEvent(2, 2, Noon + 3600),  \* one hour on Wed
      AllDayEvent(-2, 1),          \* starts before the grid
      AllDayEvent(33, 37),         \* ends after the grid
      AllDayEvent(-3, 40),         \* covers the whole grid
      AllDayEvent(-5, -3) }        \* wholly before the grid

MaxLayoutEvents == 3

InitLayout ==
    /\ Init
    /\ compactionInput = << >>
    /\ today = ReferenceToday
    /\ clockMinutes = Noon \div 60
    /\ inbox \in {<<data>> : data \in ListsOver(LayoutEvents, MaxLayoutEvents)}

NextLayout == renderCalendar

SpecLayout == InitLayout /\ [][NextLayout]_vars

(***************************************************************************)
(* Properties of the segments and lanes.                                   *)
(***************************************************************************)
SegmentIndexes == 1..Len(multiDayEvents)

LastColumn(seg) == seg.gridColumn + seg.span - 1

ColumnsIntersect(a, b) ==
    a.gridColumn <= LastColumn(b) /\ b.gridColumn <= LastColumn(a)

\* C1: no two segments in the same grid row with intersecting column ranges
\* carry the same lane (eventRow); that is, events whose segments share a grid
\* cell have different lanes.
LanesOverlapFree ==
    \A i, j \in SegmentIndexes :
        ( /\ i # j
          /\ multiDayEvents[i].gridRow = multiDayEvents[j].gridRow
          /\ ColumnsIntersect(multiDayEvents[i], multiDayEvents[j]) )
        => multiDayEvents[i].eventRow # multiDayEvents[j].eventRow

\* Three events of which two pairs share a cell and the third pair shares a lane.
OverlappingEventsLaidOut ==
    \E i, j, k \in SegmentIndexes :
        /\ multiDayEvents[i].gridRow = multiDayEvents[j].gridRow
        /\ multiDayEvents[j].gridRow = multiDayEvents[k].gridRow
        /\ multiDayEvents[i].summary # multiDayEvents[j].summary
        /\ ColumnsIntersect(multiDayEvents[i], multiDayEvents[j])
        /\ ColumnsIntersect(multiDayEvents[j], multiDayEvents[k])
        /\ multiDayEvents[i].eventRow = multiDayEvents[k].eventRow
        /\ multiDayEvents[i].summary # multiDayEvents[k].summary

\* C2: all segments emitted for one event carry the same lane (eventRow).
EventKeepsItsLane ==
    \A i, j \in SegmentIndexes :
        multiDayEvents[i].summary = multiDayEvents[j].summary
            => multiDayEvents[i].eventRow = multiDayEvents[j].eventRow

\* An event in lane 1 or higher with segments in two weeks.
TwoWeekEventInUpperLane ==
    \E i, j \in SegmentIndexes :
        /\ multiDayEvents[i].summary = multiDayEvents[j].summary
        /\ multiDayEvents[i].gridRow # multiDayEvents[j].gridRow
        /\ multiDayEvents[i].eventRow > 0

\* C7: getEventDurationDays is at least 1 for every event with two dates, also
\* when the end is before or on the start day.
DurationAtLeastOne ==
    \A i \in 1..Len(calendarData) :
        (calendarData[i].start # NoDate /\ calendarData[i].end # NoDate)
            => getEventDurationDays(calendarData[i], Now) >= 1

\* A pass that classified an event ending before its start and an all-day
\* event with no day between start and end.
DegenerateEventsClassified ==
    /\ phase = "rendered"
    /\ \E i \in 1..Len(calendarData) : calendarData[i].end.day < calendarData[i].start.day
    /\ \E i \in 1..Len(calendarData) :
          calendarData[i].all_day /\ calendarData[i].end.day = calendarData[i].start.day

\* The cell of a calendar day, counted from the first grid date.
CellOfDay(day) == day - gridDates[1]

DayInGrid(day) == day - gridDates[1] \in 0..(Len(gridDates) - 1)

SegmentsOf(summary) ==
    {i \in SegmentIndexes : multiDayEvents[i].summary = summary}

CoveredCells(summary) ==
    UNION {SegmentCells(multiDayEvents[i]) : i \in SegmentsOf(summary)}

\* An all-day event with start and exclusive end in one grid row, start first.
AllDayWithinOneRow(event) ==
    /\ event.all_day
    /\ DayInGrid(event.start.day) /\ DayInGrid(event.end.day)
    /\ CellOfDay(event.start.day) \div 7 = CellOfDay(event.end.day) \div 7
    /\ event.start.day < event.end.day

\* C8: an all-day event whose start and exclusive end lie in one grid row at
\* columns s < e yields exactly one segment, with gridColumn s and span e - s;
\* for the list Mon-Wed, Wed-Fri these are (0, 3) and (2, 3) in different lanes.
AllDaySegmentWithinRow ==
    phase # "empty" =>
        /\ \A k \in 1..Len(calendarData) :
              AllDayWithinOneRow(calendarData[k]) =>
                  /\ Cardinality(SegmentsOf(k)) = 1
                  /\ \A i \in SegmentsOf(k) :
                        /\ multiDayEvents[i].gridRow = CellOfDay(calendarData[k].start.day) \div 7
                        /\ multiDayEvents[i].gridColumn = CellOfDay(calendarData[k].start.day) % 7
                        /\ multiDayEvents[i].span =
                              calendarData[k].end.day - calendarData[k].start.day
        /\ calendarData = Numbered(<<EventA, EventB>>) =>
              /\ Len(multiDayEvents) = 2
              /\ \E i, j \in SegmentIndexes :
                    /\ multiDayEvents[i].summary = 1
                    /\ multiDayEvents[i].gridColumn = 0 /\ multiDayEvents[i].span = 3
                    /\ multiDayEvents[j].summary = 2
                    /\ multiDayEvents[j].gridColumn = 2 /\ multiDayEvents[j].span = 3
                    /\ multiDayEvents[i].eventRow # multiDayEvents[j].eventRow

\* The pass over the list Mon-Wed, Wed-Fri.
MonWedAndWedFriLaidOut ==
    phase = "rendered" /\ calendarData = Numbered(<<EventA, EventB>>)

\* A timed event of more than one day that ends at 00:00:00.
TimedUntilMidnight(event) ==
    /\ ~event.all_day
    /\ event.end.sec = Midnight
    /\ event.end.day - event.start.day > 1

\* C9: a timed event ending exactly at local midnight at the start of day D+1
\* is placed with end date D: its segments end in the cell of D; the end date
\* of an all-day event is not shifted: its segments end in the cell before its
\* exclusive end date.
MidnightEndIsPreviousDay ==
    phase # "empty" =>
        \A k \in 1..Len(calendarData) :
            /\ ( /\ TimedUntilMidnight(calendarData[k])
                 /\ DayInGrid(calendarData[k].start.day)
                 /\ DayInGrid(calendarData[k].end.day - 1) )
               => /\ EffectiveEndDate(calendarData[k], Now).day = calendarData[k].end.day - 1
                  /\ CoveredCells(k) = CellOfDay(calendarData[k].start.day)
                                           ..CellOfDay(calendarData[k].end.day - 1)
            /\ ( /\ calendarData[k].all_day
                 /\ calendarData[k].start.day < calendarData[k].end.day
                 /\ DayInGrid(calendarData[k].start.day)
                 /\ DayInGrid(calendarData[k].end.day) )
               => /\ EffectiveEndDate(calendarData[k], Now) = calendarData[k].end
                  /\ CoveredCells(k) = CellOfDay(calendarData[k].start.day)
                                           ..(CellOfDay(calendarData[k].end.day) - 1)

\* A pass over a timed event ending at midnight together with an all-day event.
MidnightEventPlaced ==
    /\ phase = "rendered"
    /\ \E k \in 1..Len(calendarData) :
          /\ TimedUntilMidnight(calendarData[k])
          /\ DayInGrid(calendarData[k].start.day)
          /\ CoveredCells(k) # {}
    /\ \E k \in 1..Len(calendarData) :
          calendarData[k].all_day /\ CoveredCells(k) # {}

(***************************************************************************)
(* The order of the lanes.                                                 *)
(***************************************************************************)
\* Event j is placed before event k: it starts earlier or, with equal starts,
\* comes earlier in the list.
PlacedBefore(j, k) ==
    LET startJ == TimeValue(parseEventDate(calendarData[j].start, Now))
        startK == TimeValue(parseEventDate(calendarData[k].start, Now))
    IN  startJ < startK \/ (startJ = startK /\ j < k)

LaneOf(summary) ==
    CHOOSE lane \in {multiDayEvents[i].eventRow : i \in SegmentsOf(summary)} : TRUE

ShareCell(j, k) == CoveredCells(j) \cap CoveredCells(k) # {}

ClaimedBefore(lane, k) ==
    UNION {CoveredCells(j) :
              j \in {e \in 1..Len(calendarData) :
                        /\ SegmentsOf(e) # {}
                        /\ PlacedBefore(e, k)
                        /\ LaneOf(e) = lane}}

\* C23: in the order of the starts (equal starts in list order) every event
\* with cells has the smallest lane whose cells claimed so far are disjoint
\* from its own; lanes are numbered without gaps, so a new lane is the count
\* of the lanes so far; the occupancy table holds for every lane exactly the
\* cells of the events of that lane.
FirstFitInStartOrder ==
    phase # "empty" =>
        /\ \A k \in 1..Len(calendarData) :
              SegmentsOf(k) # {} =>
                  /\ ClaimedBefore(LaneOf(k), k) \cap CoveredCells(k) = {}
                  /\ \A lane \in 0..(LaneOf(k) - 1) :
                        ClaimedBefore(lane, k) \cap CoveredCells(k) # {}
                  /\ LaneOf(k) < Len(globalRowOccupancy)
        /\ \A row \in 1..Len(globalRowOccupancy) :
              /\ globalRowOccupancy[row] =
                     UNION {CoveredCells(k) :
                               k \in {e \in 1..Len(calendarData) :
                                         SegmentsOf(e) # {} /\ LaneOf(e) = row - 1}}
              /\ row > 1 => globalRowOccupancy[row] # {}

\* A pass over three events of which the one listed last starts first, the
\* second overlaps it and the third reuses lane 0.
ListedLastPlacedFirst ==
    /\ phase = "rendered"
    /\ Len(globalRowOccupancy) = 2
    /\ \E j, k, m \in 1..Len(calendarData) :
          /\ k < j /\ PlacedBefore(j, k) /\ PlacedBefore(k, m)
          /\ SegmentsOf(j) # {} /\ SegmentsOf(k) # {} /\ SegmentsOf(m) # {}
          /\ LaneOf(j) = 0 /\ LaneOf(k) = 1 /\ LaneOf(m) = 0
          /\ ShareCell(j, k)

\* The grid rows in which an event has a segment.
RowsOf(summary) == {multiDayEvents[i].gridRow : i \in SegmentsOf(summary)}

\* C24: every segment has a span of at least 1 and ends inside its grid row;
\* an event has one segment per row from its first to its last row; the
\* segment starts in column 0 in every row but the first of the event and
\* reaches the end of the week in every row but the last.
SegmentsStayInsideRows ==
    \A i \in SegmentIndexes :
        LET seg  == multiDayEvents[i]
            rows == RowsOf(seg.summary)
        IN  /\ seg.span >= 1
            /\ seg.gridColumn \in 0..6
            /\ seg.gridColumn + seg.span <= 7
            /\ seg.gridRow \in 0..(NumWeeks(gridDates) - 1)
            /\ (\E row \in rows : row < seg.gridRow) => seg.gridColumn = 0
            /\ (\E row \in rows : row > seg.gridRow) => seg.span = 7 - seg.gridColumn
            /\ \A j \in SegmentsOf(seg.summary) :
                  multiDayEvents[j].gridRow = seg.gridRow => j = i
            /\ \A row \in 0..(NumWeeks(gridDates) - 1) :
                  ( /\ \E low \in rows : low <= row
                    /\ \E high \in rows : high >= row ) => row \in rows

\* A pass over an event with segments in two rows, that starts in the middle
\* of a week, and an all-day event of no length, whose segment is dropped.
TwoRowEventAndDroppedSegment ==
    /\ phase = "rendered"
    /\ \E i, j \in SegmentIndexes :
          /\ multiDayEvents[i].summary = multiDayEvents[j].summary
          /\ multiDayEvents[i].gridRow < multiDayEvents[j].gridRow
          /\ multiDayEvents[i].gridColumn > 0
          /\ multiDayEvents[j].span < 7
    /\ \E k \in 1..Len(calendarData) :
          /\ calendarData[k].all_day
          /\ calendarData[k].start = calendarData[k].end
          /\ DayInGrid(calendarData[k].start.day)
          /\ SegmentsOf(k) = {}

\* The segments that cover a cell.
SegmentsOver(index) ==
    {i \in SegmentIndexes : index \in SegmentCells(multiDayEvents[i])}

\* The order-preserving bijections from a set of lanes onto 0..k-1.
DenseRemappings(lanes) ==
    {f \in [lanes -> 0..(Cardinality(lanes) - 1)] :
        \A a, b \in lanes : a < b => f[a] < f[b]}

\* C28: for every grid row there is exactly one order-preserving bijection
\* from the lanes used in the row onto 0..k-1, and the display-row count of
\* every cell of the row is 1 + the largest image of the lanes of the segments
\* over the cell (0 without segments), which is at least the number of those
\* segments and at most k.
DisplayRowsAreDenseRanks ==
    phase # "empty" =>
        \A gridRow \in 0..(NumWeeks(gridDates) - 1) :
            LET lanes == {multiDayEvents[i].eventRow :
                             i \in {j \in SegmentIndexes : multiDayEvents[j].gridRow = gridRow}}
            IN  /\ Cardinality(DenseRemappings(lanes)) = 1
                /\ \A f \in DenseRemappings(lanes) :
                      \A col \in 0..6 :
                          LET index == gridRow * 7 + col
                              over  == SegmentsOver(index)
                          IN  /\ cellDisplayRowCount[index] =
                                     IF over = {} THEN 0
                                     ELSE 1 + SetMax({f[multiDayEvents[i].eventRow] : i \in over})
                              /\ cellDisplayRowCount[index] >= Cardinality(over)
                              /\ cellDisplayRowCount[index] <= Cardinality(lanes)

\* A pass after which a grid row uses lane 1 only, so that its cells count one
\* display row.
RowUsesUpperLaneOnly ==
    /\ phase = "rendered"
    /\ \E i \in SegmentIndexes :
          /\ multiDayEvents[i].eventRow = 1
          /\ UniqueEventRows(multiDayEvents, multiDayEvents[i].gridRow) = {1}
          /\ \A index \in SegmentCells(multiDayEvents[i]) : cellDisplayRowCount[index] = 1


(***************************************************************************)
(* The calendar with its callbacks: one payload, rendered, then observed   *)
(* under a range of heights of the days grid.                              *)
(***************************************************************************)
OverflowEvents ==
    { EventA,                         \* Mon-Wed of week 0
      AllDayEvent(2, 9),              \* Wed of week 0 to Tue of week 1
      TimedEvent(2, 2, Noon + 3600) } \* one hour on Wed

MaxOverflowEvents == 3

HeightStepPx == 65

MaxHeightSteps == 8

Heights == {k * HeightStepPx : k \in 0..MaxHeightSteps}

InitOverflow ==
    /\ Init
    /\ compactionInput = << >>
    /\ today = ReferenceToday
    /\ clockMinutes = Noon \div 60
    /\ inbox \in {<<data>> : data \in ListsOver(OverflowEvents, MaxOverflowEvents)}

FrameCallback == \E height \in Heights : animationFrame(height)

ResizeCallback == \E height \in Heights : resizeObserver(height)

Next ==
    \/ renderCalendar
    \/ FrameCallback
    \/ ResizeCallback

Spec == InitOverflow /\ [][Next]_vars

(***************************************************************************)
(* Properties of the overflow pass.                                        *)
(***************************************************************************)
PassHasRun == phase = "observing" /\ cellLimits # << >>

CellIndexes == 0..(Len(gridDates) - 1)

\* Lanes shown plus single-day markers displayed in a cell.
ShownInCell(index) == cellLimits[index] + DisplayedTimed(dayCells[index])

\* C5: for a fixed layout and every cell, a pass under a lower height shows no
\* more items (lanes shown plus markers shown) than a pass under a higher one.
OverflowIsMonotonic ==
    (PassHasRun /\ previousPass # << >>) =>
        \A index \in CellIndexes :
            /\ previousPass.offsetHeight <= offsetHeight
                   => previousPass.shown[index] <= ShownInCell(index)
            /\ previousPass.offsetHeight >= offsetHeight
                   => previousPass.shown[index] >= ShownInCell(index)

\* Two passes of which the second, under more height, shows more in a cell
\* that still hides something.
TallerPassShowsMore ==
    /\ PassHasRun /\ previousPass # << >>
    /\ previousPass.offsetHeight < offsetHeight
    /\ \E index \in CellIndexes :
          /\ 0 < previousPass.shown[index]
          /\ previousPass.shown[index] < ShownInCell(index)
          /\ cellHidden[index].totalHidden > 0

NoHeightLeft == AvailableHeight(offsetHeight, NumWeeks(gridDates)) <= 0

\* C10 as stated: with an available height of zero or less, every cell that
\* holds anything shows no lane and no marker, reports all its lanes and
\* markers as hidden and displays the indicator.
ZeroBudgetShowsNothing ==
    (PassHasRun /\ NoHeightLeft) =>
        \A index \in CellIndexes :
            cellDisplayRowCount[index] + Len(TimedOfCell(index)) > 0 =>
                /\ cellLimits[index] = 0
                /\ DisplayedTimed(dayCells[index]) = 0
                /\ cellHidden[index].totalHidden =
                       cellDisplayRowCount[index] + Len(TimedOfCell(index))
                /\ dayCells[index].more.display = "block"

\* C10 amended: with an available height of zero or less no marker is shown,
\* the lane limit of a cell is 1 when the cell has a lane (0 otherwise), the
\* hidden count is the lanes beyond the limit plus all markers, and the
\* indicator is displayed exactly when that count is positive.
ZeroBudgetKeepsOneLane ==
    (PassHasRun /\ NoHeightLeft) =>
        \A index \in CellIndexes :
            LET lanes   == cellDisplayRowCount[index]
                markers == Len(TimedOfCell(index))
            IN  /\ cellLimits[index] = Min(1, lanes)
                /\ dayCells[index].marginTop = Min(1, lanes) * eventRowHeightPx
                /\ cellHidden[index].visibleTimed = 0
                /\ DisplayedTimed(dayCells[index]) = 0
                /\ cellHidden[index].totalHidden = (lanes - Min(1, lanes)) + markers
                /\ dayCells[index].more.display = "block"
                       <=> cellHidden[index].totalHidden > 0
                /\ cellHidden[index].totalHidden > 0
                       => dayCells[index].more.text = cellHidden[index].totalHidden

\* A pass with exactly no height left over a cell touched by three lanes.
ThreeLanesNoHeight ==
    /\ PassHasRun
    /\ AvailableHeight(offsetHeight, NumWeeks(gridDates)) = 0
    /\ \E index \in CellIndexes :
          /\ cellDisplayRowCount[index] = 3
          /\ Len(TimedOfCell(index)) = 0
          /\ cellLimits[index] = 1
          /\ cellHidden[index].totalHidden = 2

\* The space the lanes and markers of a cell need fits the available height
\* (both times numWeeks).
CellFits(index) ==
    (cellDisplayRowCount[index] * eventRowHeightPx
         + Len(TimedOfCell(index)) * timedEventHeightPx) * NumWeeks(gridDates)
        <= AvailableHeight(offsetHeight, NumWeeks(gridDates))

\* C11: for a cell whose lanes times 22 plus markers times 18 fit the available
\* height, the pass computes a lane limit equal to the lane count, visibleTimed
\* equal to the marker count and a hidden count of 0, and hides the indicator.
FittingCellShowsAll ==
    PassHasRun =>
        \A index \in CellIndexes :
            CellFits(index) =>
                /\ cellLimits[index] = cellDisplayRowCount[index]
                /\ cellHidden[index].visibleTimed = Len(TimedOfCell(index))
                /\ cellHidden[index].totalHidden = 0
                /\ dayCells[index].more.display = "none"
                /\ DisplayedTimed(dayCells[index]) = Len(dayCells[index].timed)

\* A pass under which a cell with two lanes and a marker fits.
TwoLanesAndMarkerFit ==
    /\ PassHasRun
    /\ \E index \in CellIndexes :
          /\ cellDisplayRowCount[index] = 2
          /\ Len(TimedOfCell(index)) = 1
          /\ CellFits(index)
          /\ cellLimits[index] = 2
          /\ DisplayedTimed(dayCells[index]) = 1

\* C17: in a cell whose lanes and markers do not fit the available height, the
\* lane limit is at least 1 and at most the lane count when the cell has a
\* lane, and 0 when it has none.
OverflowLimitWithinLanes ==
    PassHasRun =>
        \A index \in CellIndexes :
            ~CellFits(index) =>
                /\ cellDisplayRowCount[index] >= 1
                       => cellLimits[index] \in 1..cellDisplayRowCount[index]
                /\ cellDisplayRowCount[index] = 0 => cellLimits[index] = 0

\* A pass with some height available under which a cell with two lanes keeps one.
TwoLanesCutToOne ==
    /\ PassHasRun
    /\ \E index \in CellIndexes :
          /\ ~CellFits(index)
          /\ cellDisplayRowCount[index] = 2
          /\ cellLimits[index] = 1
          /\ AvailableHeight(offsetHeight, NumWeeks(gridDates)) > 0

\* What one callback under the given height produces on the calendar as first
\* rendered from the current layout: limits, hidden counts, cells and the
\* display of the spanning elements.
SinglePass(height) ==
    LET numWeeks   == NumWeeks(gridDates)
        available  == AvailableHeight(height, numWeeks)
        limits     == [index \in CellIndexes |->
                          MaxVisibleSpanning(cellDisplayRowCount[index],
                                             Len(TimedOfCell(index)), available, numWeeks)]
        hiddenOf(index) ==
            LET visibleTimed == VisibleTimed(cellDisplayRowCount[index], limits[index],
                                             Len(TimedOfCell(index)), available, numWeeks)
            IN  [visibleTimed |-> visibleTimed,
                 totalHidden  |-> Max(0, cellDisplayRowCount[index] - limits[index])
                                  + Max(0, Len(TimedOfCell(index)) - visibleTimed)]
    IN  [cellLimits |-> limits,
         cellHidden |-> [index \in CellIndexes |-> hiddenOf(index)],
         dayCells   |-> [index \in CellIndexes |->
                            ResizedDayCell(InitialDayCell(TimedOfCell(index),
                                                          cellDisplayRowCount[index]),
                                           limits[index],
                                           hiddenOf(index).visibleTimed,
                                           hiddenOf(index).totalHidden)],
         display    |-> [i \in SegmentIndexes |->
                            SpanningDisplay(multiDayEvents[i], limits)]]

\* C18: after any sequence of callbacks the lane limit, the visibility of the
\* markers, the hidden count and the indicator of every cell, and the display
\* of every spanning element, are those of a single callback under the last
\* height on the freshly rendered calendar; so a callback under an unchanged
\* height changes none of them.
OverflowDependsOnLastHeightOnly ==
    PassHasRun =>
        \E single \in {SinglePass(offsetHeight)} :
            /\ cellLimits = single.cellLimits
            /\ cellHidden = single.cellHidden
            /\ \A index \in CellIndexes :
                  /\ dayCells[index].timed = single.dayCells[index].timed
                  /\ dayCells[index].marginTop = single.dayCells[index].marginTop
                  /\ dayCells[index].more.display = single.dayCells[index].more.display
                  /\ dayCells[index].more.display = "block"
                         => dayCells[index].more.text = single.dayCells[index].more.text
            /\ \A i \in SegmentIndexes : overlay[i].display = single.display[i]

\* A callback under more height than the one before it, after which a cell
\* shows everything while its hidden indicator still holds an earlier count.
EarlierPassHidMore ==
    /\ PassHasRun /\ previousPass # << >>
    /\ previousPass.offsetHeight < offsetHeight
    /\ \E index \in CellIndexes :
          /\ previousPass.shown[index] < ShownInCell(index)
          /\ cellHidden[index].totalHidden = 0
          /\ dayCells[index].more.text > 0

\* C16: the top of every spanning element is the top of its grid row plus the
\* day number offset plus 22 px times the compacted lane index of its segment
\* in that row, at the first rendering and after every callback (all times
\* numWeeks): a row that uses only lanes {0, 3} draws them at positions 0 and 1.
SegmentDrawnAtCompactedLane ==
    phase = "observing" =>
        \A i \in SegmentIndexes :
            overlay[i].top =
                multiDayEvents[i].gridRow * offsetHeight
                + NumWeeks(gridDates)
                    * (dayNumberOffsetPx
                       + EventRowToDisplayRow(multiDayEvents, multiDayEvents[i].gridRow,
                                              multiDayEvents[i].eventRow)
                         * eventRowHeightPx)

\* C16 amended: the top of every spanning element is the top of its grid row
\* plus the day number offset plus 22 px times the global lane (eventRow) of
\* its segment, at the first rendering and after every callback (all times
\* numWeeks); the rank of the lane within the row plays no part, so a row that
\* uses only lane 1 draws it at position 1.
SegmentDrawnAtGlobalLane ==
    phase = "observing" =>
        /\ Len(overlay) = Len(multiDayEvents)
        /\ \A i \in SegmentIndexes :
              overlay[i].top =
                  multiDayEvents[i].gridRow * offsetHeight
                  + NumWeeks(gridDates)
                      * (dayNumberOffsetPx + multiDayEvents[i].eventRow * eventRowHeightPx)

\* A callback has run over a row whose only segment is in lane 1.
RowWithOnlyUpperLane ==
    /\ PassHasRun
    /\ offsetHeight > 0
    /\ \E i \in SegmentIndexes :
          /\ multiDayEvents[i].eventRow = 1
          /\ UniqueEventRows(multiDayEvents, multiDayEvents[i].gridRow) = {1}
          /\ overlay[i].top = multiDayEvents[i].gridRow * offsetHeight
                              + NumWeeks(gridDates) * (dayNumberOffsetPx + eventRowHeightPx)

(***************************************************************************)
(* The calendar with its callbacks over days that hold several single-day  *)
(* events.                                                                 *)
(***************************************************************************)
MarkerEvents ==
    { TimedEvent(2, 2, Noon + 3600),  \* one hour on Wed
      EventA }                        \* Mon-Wed of week 0

MaxMarkerEvents == 4

InitMarkers ==
    /\ Init
    /\ compactionInput = << >>
    /\ today = ReferenceToday
    /\ clockMinutes = Noon \div 60
    /\ inbox \in {<<data>> : data \in ListsOver(MarkerEvents, MaxMarkerEvents)}

SpecMarkers == InitMarkers /\ [][Next]_vars

\* C21: after every callback and in every cell, the hidden count is the lanes
\* not shown plus the single-day events of the cell that are not displayed, so
\* shown lanes + displayed markers + hidden count = lanes + markers, and the
\* indicator is displayed exactly when the hidden count is positive.
HiddenCountsWhatIsNotShown ==
    PassHasRun =>
        \A index \in CellIndexes :
            /\ cellHidden[index].totalHidden =
                   (cellDisplayRowCount[index] - cellLimits[index])
                   + (Len(TimedOfCell(index)) - DisplayedTimed(dayCells[index]))
            /\ dayCells[index].more.display = "block"
                   <=> cellHidden[index].totalHidden > 0

\* C26: in a cell whose indicator is displayed while the available height is
\* at least the indicator plus one lane, the shown lanes, the displayed
\* markers and the indicator together fit the available height (all times
\* numWeeks).
IndicatorSpaceReserved ==
    PassHasRun =>
        \A index \in CellIndexes :
            ( /\ dayCells[index].more.display = "block"
              /\ AvailableHeight(offsetHeight, NumWeeks(gridDates))
                     >= NumWeeks(gridDates) * (moreIndicatorHeightPx + eventRowHeightPx) )
            => NumWeeks(gridDates)
                   * (cellLimits[index] * eventRowHeightPx
                      + DisplayedTimed(dayCells[index]) * timedEventHeightPx
                      + moreIndicatorHeightPx)
               <= AvailableHeight(offsetHeight, NumWeeks(gridDates))

\* C27: a spanning element is displayed when everything fits in every cell
\* its segment covers, and an element that is not displayed covers a cell
\* with a positive hidden count.
FittingSegmentIsDisplayed ==
    PassHasRun =>
        \A i \in SegmentIndexes :
            /\ (\A index \in SegmentCells(multiDayEvents[i]) : CellFits(index))
                   => overlay[i].display = "flex"
            /\ overlay[i].display = "none"
                   => \E index \in SegmentCells(multiDayEvents[i]) :
                          cellHidden[index].totalHidden > 0

(***************************************************************************)
(* Repeated layout passes: the same list again, after other lists.         *)
(***************************************************************************)
RepeatEvents == {EventA, AllDayEvent(2, 9)}

MaxRepeatEvents == 2

MaxBetween == 1

SequencesOver(S, maxLen) == UNION {[1..n -> S] : n \in 0..maxLen}

InitRepeat ==
    /\ Init
    /\ today = ReferenceToday
    /\ clockMinutes = Noon \div 60
    /\ compactionInput = << >>
    /\ inbox \in {<<data>> \o between \o <<data>> :
                    data \in ListsOver(RepeatEvents, MaxRepeatEvents),
                    between \in SequencesOver(ListsOver(RepeatEvents, MaxRepeatEvents),
                                              MaxBetween)}

NextRepeat == renderCalendar

SpecRepeat == InitRepeat /\ [][NextRepeat]_vars

MaxCompactionLane == 2

MaxCompactionSegments == 2

CompactionWeeks == 2

CompactionDates == [i \in 1..(7 * CompactionWeeks) |-> GridOrigin + i - 1]

\* A segment of three columns that starts in the column of its lane.
CompactionSegment(gridRow, eventRow) ==
    [summary |-> 0, gridRow |-> gridRow, gridColumn |-> eventRow, span |-> 3,
     eventRow |-> eventRow]

CompactionSegments(rows) ==
    {CompactionSegment(gridRow, eventRow) :
        gridRow \in rows, eventRow \in 0..MaxCompactionLane}

InRow(segments, gridRow) ==
    SelectSeq(segments, LAMBDA seg : seg.gridRow = gridRow)

InitCompaction ==
    /\ Init
    /\ today = ReferenceToday
    /\ clockMinutes = Noon \div 60
    /\ inbox = << >>
    /\ compactionInput \in
          UNION { { [a |-> a, b |-> other \o InRow(a, gridRow), row |-> gridRow] :
                      a \in SequencesOver(CompactionSegments(0..(CompactionWeeks - 1)),
                                          MaxCompactionSegments),
                      other \in SequencesOver(
                                    CompactionSegments((0..(CompactionWeeks - 1)) \ {gridRow}),
                                    MaxCompactionSegments) } :
                  gridRow \in 0..(CompactionWeeks - 1) }

CompactBoth ==
    /\ compactionResult = << >>
    /\ compactionResult' =
          [a |-> calculateDisplayRows(compactionInput.a, CompactionDates),
           b |-> calculateDisplayRows(compactionInput.b, CompactionDates)]
    /\ UNCHANGED <<kioskVars, today, inbox, calendarData, gridDates, multiDayEvents, singleDayEvents,
                   cellDisplayRowCount, globalRowOccupancy, phase, dayCells, overlay,
                   offsetHeight, cellLimits, cellHidden, previousPass, firstPass,
                   compactionInput>>

NextCompaction == CompactBoth

SpecCompaction == InitCompaction /\ [][NextCompaction]_vars

LanesInRow(segments, gridRow) ==
    {segments[i].eventRow : i \in {j \in 1..Len(segments) : segments[j].gridRow = gridRow}}

\* C6: two segment lists with the same segments in row R give every segment of
\* row R the same compacted index and every cell of row R the same display-row
\* count, whatever the other rows hold.
CompactionIsRowLocal ==
    compactionResult # << >> =>
        LET gridRow == compactionInput.row
        IN  /\ \A col \in 0..6 :
                  compactionResult.a[gridRow * 7 + col] = compactionResult.b[gridRow * 7 + col]
            /\ \A eventRow \in LanesInRow(compactionInput.a, gridRow) :
                  EventRowToDisplayRow(compactionInput.a, gridRow, eventRow)
                      = EventRowToDisplayRow(compactionInput.b, gridRow, eventRow)

\* Two lists that agree in a row holding lane 2 only and differ in the lanes of
\* the other row.
SameRowDifferentOtherRows ==
    /\ compactionResult # << >>
    /\ LanesInRow(compactionInput.a, compactionInput.row) = {2}
    /\ LanesInRow(compactionInput.a, 1 - compactionInput.row) = {}
    /\ LanesInRow(compactionInput.b, 1 - compactionInput.row) = {0, 1}

(***************************************************************************)
(* Layout passes over events at the edges of the September 2026 grid, of   *)
(* one day, and with missing dates.                                        *)
(***************************************************************************)
MissingBoth ==
    [summary |-> 0, start |-> NoDate, end |-> NoDate, all_day |-> FALSE]

MissingStart == [AllDayEvent(0, 20) EXCEPT !.start = NoDate]

MissingEnd == [AllDayEvent(10, 0) EXCEPT !.end = NoDate]

EdgeEvents ==
    { AllDayEvent(-3, 40),            \* covers the whole grid
      AllDayEvent(-5, -3),            \* wholly before the grid
      AllDayEvent(36, 38),            \* wholly after the grid
      AllDayEvent(-5, 0),             \* exclusive end on the first grid date
      TimedEvent(-3, 0, Midnight),    \* until midnight before the first grid date
      AllDayEvent(5, 7),              \* Sat and Sun of week 0
      AllDayEvent(30, 35),            \* through the last grid date
      AllDayEvent(-2, 1),             \* starts before the grid
      AllDayEvent(33, 37),            \* ends after the grid
      AllDayEvent(3, 4),              \* all-day, one day
      TimedEvent(2, 2, Noon + 3600),  \* one hour on Wed
      TimedEvent(1, 4, Noon),         \* Tue noon to Fri noon
      AllDayEvent(16, 18),            \* two days from the day after today
      AllDayEvent(40, 2),             \* starts after the grid, end before start
      MissingBoth,                    \* timed, no start and no end
      MissingStart,                   \* all-day, no start, ends on cell 20
      MissingEnd }                    \* all-day, starts on cell 10, no end

MaxEdgeEvents == 2

InitEdges ==
    /\ Init
    /\ compactionInput = << >>
    /\ today = ReferenceToday
    /\ clockMinutes = Noon \div 60
    /\ inbox \in {<<data>> : data \in ListsOver(EdgeEvents, MaxEdgeEvents)}

NextEdges == renderCalendar

SpecEdges == InitEdges /\ [][NextEdges]_vars

EventIndexes == 1..Len(calendarData)

WellFormed(event) == event.start # NoDate /\ event.end # NoDate

\* The event is held by some single-day bucket.
InBucket(summary) ==
    \E key \in DOMAIN singleDayEvents :
        \E i \in 1..Len(singleDayEvents[key]) : singleDayEvents[key][i].summary = summary

InBucketOf(summary, key) ==
    /\ key \in DOMAIN singleDayEvents
    /\ \E i \in 1..Len(singleDayEvents[key]) : singleDayEvents[key][i].summary = summary

\* C12: an event is laid out as a spanning bar if and only if it is all-day or
\* lasts more than one day: such an event is in no single-day bucket and, when
\* it starts on a grid date before its end, has a segment; any other event
\* has no segment and is in the bucket of its start date when that is a grid
\* date.  No event has both a segment and a bucket entry.
ClassifiedByAllDayOrDuration ==
    phase # "empty" =>
        \A k \in EventIndexes :
            LET event == calendarData[k]
                start == parseEventDate(event.start, Now)
                end   == parseEventDate(event.end, Now)
            IN  /\ (event.all_day \/ getEventDurationDays(event, Now) > 1)
                       => /\ ~InBucket(k)
                          /\ (DayInGrid(start.day) /\ start.day < end.day)
                                 => SegmentsOf(k) # {}
                /\ ~(event.all_day \/ getEventDurationDays(event, Now) > 1)
                       => /\ SegmentsOf(k) = {}
                          /\ DayInGrid(start.day)
                                 => InBucketOf(k, getDateKey(start.day))
                /\ ~(InBucket(k) /\ SegmentsOf(k) # {})

\* A pass over an all-day event of one day, laid out as a segment, and a timed
\* event of one hour, kept in a bucket.
OneDayAllDayBesideMarker ==
    /\ phase = "rendered"
    /\ \E k \in EventIndexes :
          /\ WellFormed(calendarData[k]) /\ calendarData[k].all_day
          /\ calendarData[k].end.day - calendarData[k].start.day = 1
          /\ SegmentsOf(k) # {}
    /\ \E k \in EventIndexes :
          /\ WellFormed(calendarData[k]) /\ ~calendarData[k].all_day
          /\ InBucket(k)

\* The event has both dates, the start not after the end, and takes the
\* multi-day branch.
OrderedSpanningEvent(event) ==
    /\ WellFormed(event)
    /\ event.start.day <= event.end.day
    /\ (event.all_day \/ getEventDurationDays(event, Now) > 1)

\* The last calendar day the event occupies: the day before the exclusive end
\* of an all-day event and before an end at 00:00:00, the end day otherwise.
LastOccupiedDay(event) ==
    IF event.all_day \/ event.end.sec = Midnight THEN event.end.day - 1 ELSE event.end.day

\* C13: an event of the multi-day branch that starts before the first grid
\* date and ends after the last one has exactly one segment in every grid row,
\* each with gridColumn 0 and span 7.
WholeGridEventSpansEveryRow ==
    phase # "empty" =>
        \A k \in EventIndexes :
            ( /\ OrderedSpanningEvent(calendarData[k])
              /\ calendarData[k].start.day < gridDates[1]
              /\ LastOccupiedDay(calendarData[k]) > gridDates[Len(gridDates)] )
            => /\ Cardinality(SegmentsOf(k)) = NumWeeks(gridDates)
               /\ \A row \in 0..(NumWeeks(gridDates) - 1) :
                     \E i \in SegmentsOf(k) :
                        /\ multiDayEvents[i].gridRow = row
                        /\ multiDayEvents[i].gridColumn = 0
                        /\ multiDayEvents[i].span = 7

\* C14: an event of the multi-day branch whose last occupied day is before the
\* first grid date, or whose start is after the last grid date, has no
\* segment, and every cell taken in a lane of the occupancy table is a cell of
\* a segment of that lane, so the event claims no cell.
OutsideEventClaimsNothing ==
    phase # "empty" =>
        /\ \A k \in EventIndexes :
              ( /\ WellFormed(calendarData[k])
                /\ (calendarData[k].all_day \/ getEventDurationDays(calendarData[k], Now) > 1)
                /\ \/ LastOccupiedDay(calendarData[k]) < gridDates[1]
                   \/ calendarData[k].start.day > gridDates[Len(gridDates)] )
              => SegmentsOf(k) = {}
        /\ \A row \in 1..Len(globalRowOccupancy) :
              globalRowOccupancy[row] =
                  UNION {SegmentCells(multiDayEvents[i]) :
                            i \in {j \in SegmentIndexes :
                                      multiDayEvents[j].eventRow = row - 1}}

(***************************************************************************)
(* The arrows of the segments.                                             *)
(***************************************************************************)
\* The first and the last segment emitted for an event, by grid row.
FirstSegmentOf(summary) ==
    CHOOSE i \in SegmentsOf(summary) :
        \A j \in SegmentsOf(summary) : multiDayEvents[i].gridRow <= multiDayEvents[j].gridRow

LastSegmentOf(summary) ==
    CHOOSE i \in SegmentsOf(summary) :
        \A j \in SegmentsOf(summary) : multiDayEvents[i].gridRow >= multiDayEvents[j].gridRow

\* C20: for an event with both dates, the start not after the end, and at
\* least one segment, the first segment has showLeftArrow exactly when the
\* start is before the first grid date, and the last segment has
\* showRightArrow exactly when the end date is after the last grid date; an
\* event inside the grid has neither.
ArrowsMarkGridOverrun ==
    phase # "empty" =>
        \A k \in EventIndexes :
            (OrderedSpanningEvent(calendarData[k]) /\ SegmentsOf(k) # {}) =>
                /\ multiDayEvents[FirstSegmentOf(k)].showLeftArrow
                       <=> calendarData[k].start.day < gridDates[1]
                /\ multiDayEvents[LastSegmentOf(k)].showRightArrow
                       <=> calendarData[k].end.day > gridDates[Len(gridDates)]

(***************************************************************************)
(* Events with a missing start or end.                                     *)
(***************************************************************************)
\* Where a segment lies, without the dates it carries along.
Placement(seg) ==
    [summary        |-> seg.summary,
     gridColumn     |-> seg.gridColumn,
     gridRow        |-> seg.gridRow,
     span           |-> seg.span,
     eventRow       |-> seg.eventRow,
     showLeftArrow  |-> seg.showLeftArrow,
     showRightArrow |-> seg.showRightArrow]

Placements(segments) == [i \in 1..Len(segments) |-> Placement(segments[i])]

BucketSummaries(buckets) ==
    [key \in DOMAIN buckets |-> [i \in 1..Len(buckets[key]) |-> buckets[key][i].summary]]

\* The list without its events that miss a date.
WellFormedOnly(events) == SelectSeq(events, WellFormed)

\* The list with the current instant in place of every missing date.
WithNowForMissing(events) ==
    [i \in 1..Len(events) |->
        [events[i] EXCEPT !.start = IF @ = NoDate THEN Now ELSE @,
                          !.end   = IF @ = NoDate THEN Now ELSE @]]

SegmentOfWellFormed(seg) == seg.start # NoDate /\ seg.end # NoDate

\* C19: an event that misses its start or its end is in no bucket and has no
\* segment, and the events with both dates are laid out as by a pass over the
\* list without the others.
MalformedEventsExcluded ==
    phase # "empty" =>
        /\ \A k \in EventIndexes :
              ~WellFormed(calendarData[k]) => (~InBucket(k) /\ SegmentsOf(k) = {})
        /\ \E alone \in {organizeEventsForGrid(WellFormedOnly(calendarData), gridDates, Now)} :
              /\ Placements(SelectSeq(multiDayEvents, SegmentOfWellFormed))
                     = Placements(alone.multiDayEventsList)
              /\ \A key \in DOMAIN singleDayEvents :
                    BucketSummaries(alone.singleDayEvents)[key]
                        = BucketSummaries([k \in DOMAIN singleDayEvents |->
                              SelectSeq(singleDayEvents[k], SegmentOfWellFormed)])[key]

\* C19 amended: a pass over a list with events that miss a date lays every
\* event out as the pass over the list with the current instant in place of
\* each missing date does: a timed event without start and end is in the
\* bucket of today, and an all-day event without start takes a lane from
\* today up to its end.
MissingDatesTakenAsNow ==
    phase # "empty" =>
        /\ \E filled \in {organizeEventsForGrid(WithNowForMissing(calendarData), gridDates, Now)} :
              /\ Placements(multiDayEvents) = Placements(filled.multiDayEventsList)
              /\ BucketSummaries(singleDayEvents) = BucketSummaries(filled.singleDayEvents)
        /\ \A k \in EventIndexes :
              /\ calendarData[k] = [MissingBoth EXCEPT !.summary = k]
                     => InBucketOf(k, getDateKey(today))
              /\ calendarData[k] = [MissingStart EXCEPT !.summary = k]
                     => CoveredCells(k) = CellOfDay(today)..(CellOfDay(calendarData[k].end.day) - 1)

\* A pass in which an all-day event without start takes lane 0 from today on
\* and an event with both dates that starts the day after is moved to lane 1.
MissingStartDisplacesEvent ==
    /\ phase = "rendered"
    /\ \E j, k \in EventIndexes :
          /\ calendarData[j].start = NoDate
          /\ SegmentsOf(j) # {} /\ LaneOf(j) = 0
          /\ WellFormed(calendarData[k])
          /\ SegmentsOf(k) # {} /\ LaneOf(k) = 1
          /\ ShareCell(j, k)

\* The cells of the grid whose dates lie from the first to the last day.
CellsOfDays(first, last) ==
    {index \in 0..(Len(gridDates) - 1) :
        gridDates[index + 1] >= first /\ gridDates[index + 1] <= last}

\* The cells that organizeEventsForGrid collects for an event (occupiedCells).
CellsClaimedBy(event) ==
    LET keys == DateKeys(gridDates)
    IN  OccupiedCells(DateToIndex(keys, getDateKey(parseEventDate(event.start, Now).day)),
                      DateToIndex(keys, getDateKey(EffectiveEndDate(event, Now).day)),
                      event.all_day, Len(gridDates))

\* C30: for an event of the multi-day branch with both dates, the end not
\* before the start, and its start date or its adjusted end date on a grid
\* date, the cells of its segments are exactly the grid cells from its start
\* date to its last occupied day, and they are the cells it claimed, which
\* its lane holds in the occupancy table.
SegmentsCoverOccupiedDays ==
    phase # "empty" =>
        \A k \in 1..Len(calendarData) :
            LET event == calendarData[k]
            IN  ( /\ WellFormed(event)
                  /\ (event.all_day \/ getEventDurationDays(event, Now) > 1)
                  /\ TimeValue(event.end) >= TimeValue(event.start)
                  /\ \/ DayInGrid(event.start.day)
                     \/ DayInGrid(EffectiveEndDate(event, Now).day) )
                => /\ CoveredCells(k) = CellsOfDays(event.start.day, LastOccupiedDay(event))
                   /\ CoveredCells(k) = CellsClaimedBy(event)
                   /\ SegmentsOf(k) # {}
                          => CoveredCells(k) \subseteq globalRowOccupancy[LaneOf(k) + 1]

\* A pass over an all-day event that starts before the grid, a timed event
\* until midnight and an all-day event that runs over the end of the grid.
EventsCutByGridAndMidnight ==
    /\ phase = "rendered"
    /\ \E k \in 1..Len(calendarData) :
          /\ calendarData[k].all_day
          /\ calendarData[k].start.day < gridDates[1]
          /\ CoveredCells(k) # {}
    /\ \E k \in 1..Len(calendarData) :
          TimedUntilMidnight(calendarData[k]) /\ CoveredCells(k) # {}
    /\ \E k \in 1..Len(calendarData) :
          /\ calendarData[k].all_day
          /\ calendarData[k].end.day > gridDates[Len(gridDates)]
          /\ CoveredCells(k) # {}


(***************************************************************************)
(* Layout passes over lists of timed events that start at different hours. *)
(***************************************************************************)
TimedEventAt(s, startSec, e, endSec) ==
    [summary |-> 0,
     start   |-> [day |-> GridOrigin + s, sec |-> startSec],
     end     |-> [day |-> GridOrigin + e, sec |-> endSec],
     all_day |-> FALSE]

BucketEvents ==
    { TimedEventAt(2, 9 * 3600, 2, 10 * 3600),     \* Wed 09:00-10:00
      TimedEventAt(2, Noon, 2, Noon + 3600),       \* Wed 12:00-13:00
      TimedEventAt(2, Noon, 2, Noon + 7200),       \* Wed 12:00-14:00
      TimedEventAt(2, 22 * 3600, 3, 3600),         \* Wed 22:00 to Thu 01:00
      TimedEventAt(3, 8 * 3600, 3, 9 * 3600),      \* Thu 08:00-09:00
      TimedEventAt(5, Noon, 4, Noon),              \* ends the day before it starts
      TimedEventAt(-2, 9 * 3600, -2, 10 * 3600),   \* before the grid
      TimedEventAt(-1, 23 * 3600, 0, 3600),        \* into the first grid date
      TimedEventAt(2, 8 * 3600, 4, 9 * 3600),      \* Wed to Fri, not single-day
      EventA,                                      \* all-day
      MissingBoth }                                \* timed, no start and no end

MaxBucketEvents == 3

InitBuckets ==
    /\ Init
    /\ compactionInput = << >>
    /\ today = ReferenceToday
    /\ clockMinutes = Noon \div 60
    /\ inbox \in {<<data>> : data \in ListsOver(BucketEvents, MaxBucketEvents)}

NextBuckets == renderCalendar

SpecBuckets == InitBuckets /\ [][NextBuckets]_vars

\* The number of entries of a bucket that carry the summary.
EntriesIn(bucket, summary) ==
    Cardinality({i \in 1..Len(bucket) : bucket[i].summary = summary})

StartInstant(event) == TimeValue(parseEventDate(event.start, Now))

\* Every single-day event is once in the bucket of its start date and in no
\* other; a bucket holds events of the list, in ascending start order with
\* ties in the order of the list.
BucketsHoldSingleDayEventsByStart ==
    /\ \A k \in 1..Len(calendarData) :
          LET event == calendarData[k]
          IN  ~TakesMultiDayBranch(isMultiDayEvent(event, Now), event.all_day)
              => \A i \in 1..Len(gridDates) :
                    EntriesIn(singleDayEvents[getDateKey(gridDates[i])], k)
                        = IF gridDates[i] = parseEventDate(event.start, Now).day
                          THEN 1 ELSE 0
    /\ \A key \in DOMAIN singleDayEvents :
          LET bucket == singleDayEvents[key]
          IN  /\ \A i \in 1..Len(bucket) :
                    /\ bucket[i].summary \in 1..Len(calendarData)
                    /\ bucket[i] = calendarData[bucket[i].summary]
              /\ \A i, j \in 1..Len(bucket) :
                    i < j => \/ StartInstant(bucket[i]) < StartInstant(bucket[j])
                             \/ /\ StartInstant(bucket[i]) = StartInstant(bucket[j])
                                /\ bucket[i].summary < bucket[j].summary

\* C29: a layout pass files every single-day event whose start date is a grid
\* date once, in the bucket of that date and in no other, and a single-day
\* event that starts outside the grid in none; every bucket is in ascending
\* start order with ties in the order of the list; and the list handed to the
\* pass is the same afterwards, in order and content.
SingleDayEventsBucketedByStart ==
    /\ [](phase # "empty" => BucketsHoldSingleDayEventsByStart)
    /\ [][inbox' # inbox => calendarData' = Head(inbox)]_vars

\* A pass whose list has the latest start first and two equal starts after
\* it in one day: the bucket holds the two in list order before the first.
BucketReorderedWithTie ==
    /\ phase = "rendered"
    /\ \E key \in DOMAIN singleDayEvents :
          LET bucket == singleDayEvents[key]
          IN  /\ Len(bucket) = 3
              /\ bucket[1].summary = 2
              /\ bucket[2].summary = 3
              /\ bucket[3].summary = 1
              /\ StartInstant(bucket[1]) = StartInstant(bucket[2])


(***************************************************************************)
(* The kiosk over the minutes of a day, from a page load at any minute.    *)
(***************************************************************************)
InitKiosk ==
    /\ Init
    /\ compactionInput = << >>
    /\ today = ReferenceToday
    /\ inbox = << >>
    /\ clockMinutes \in 0..(MinutesPerDay - 1)

NextKiosk ==
    \/ kioskCheck
    \/ configFetched
    \/ configFetchFailed
    \/ minutePasses

SpecKiosk == InitKiosk /\ [][NextKiosk]_vars

\* morningStart < dayStart < nightStart
ModeStartsOrdered(config) ==
    /\ parseTime(config.morning_mode_start) < parseTime(config.day_mode_start)
    /\ parseTime(config.day_mode_start) < parseTime(config.night_mode_start)

ModeAfter(mode) ==
    IF mode = "night" THEN "morning" ELSE IF mode = "morning" THEN "day" ELSE "night"

\* The mode of the minute of the clock is the one of the three whose range
\* holds the minute.
ModeOfMinuteIsItsRange ==
    LET t            == clockMinutes
        mode         == getCurrentMode(t, kioskConfig)
        morningStart == parseTime(kioskConfig.morning_mode_start)
        dayStart     == parseTime(kioskConfig.day_mode_start)
        nightStart   == parseTime(kioskConfig.night_mode_start)
    IN  /\ mode \in {"night", "morning", "day"}
        /\ mode = "night" <=> (t >= nightStart \/ t < morningStart)
        /\ mode = "morning" <=> (t >= morningStart /\ t < dayStart)
        /\ mode = "day" <=> (t >= dayStart /\ t < nightStart)

\* C22: with morningStart < dayStart < nightStart, the mode of every minute
\* is night from nightStart and before morningStart, morning from
\* morningStart to dayStart, day from dayStart to nightStart; once the
\* interval has fired in a minute the applied mode is the mode of that
\* minute; while the configuration stays the same the applied mode changes
\* only from night to morning, from morning to day and from day to night;
\* and a step that leaves the applied mode leaves the classes and styles and
\* writes none of them.
KioskModeFollowsClock ==
    /\ [](ModeStartsOrdered(kioskConfig) => ModeOfMinuteIsItsRange)
    /\ [](kioskChecked => currentMode = getCurrentMode(clockMinutes, kioskConfig))
    /\ [][(/\ ModeStartsOrdered(kioskConfig)
           /\ kioskConfig' = kioskConfig
           /\ currentMode # "null"
           /\ currentMode' # currentMode) => currentMode' = ModeAfter(currentMode)]_vars
    /\ [][currentMode' = currentMode
             => display' = display /\ styleWrites' = styleWrites]_vars

\* The request has failed, so the default configuration stayed in force; the
\* styles were written on the first call and on three changes of the mode,
\* and the interval has fired again in the minute of the last change.
KioskWentThroughAllModes ==
    /\ configFetch = "failed"
    /\ styleWrites = 4
    /\ kioskChecked
    /\ currentMode = "day"
    /\ display = StylesOf("day")

====
